---- MODULE Spec2Model ----
(***************************************************************************)
(* Serveqrew join-waitlist backend: the signup handler in its two versions *)
(* (src/ref-dashboard.ts lines 154-601, with the returning-user check, and *)
(* src/supabase/functions/waitlist.ts, without it), the rate limiter, and  *)
(* the two tables they work on (waitlist_signups, waitlist_rate_limits).   *)
(*                                                                         *)
(* Every await of a handler on the datastore, the auth service or the      *)
(* email provider is one atomic step; requests in flight interleave at     *)
(* these steps.  Strings are sequences of one-character strings.           *)
(***************************************************************************)
EXTENDS Integers, Sequences, FiniteSets, Bags, TLC

(* ------------------------------ bounds --------------------------------- *)
\* Requests in flight at the same time.
MaxInFlight == 2
\* The clock stops advancing after this many ticks.
MaxTicks == 3
\* Requests per run, in the runs with one client and a running clock.
MaxSequential == 8
\* Requests per run, in the runs with concurrent clients.
MaxConcurrent == 3
\* Rows of the largest table the leaderboard is read from.
MaxRows == 11
\* Rows up to which every order of equal counts is tried.
MaxShuffled == 4
\* Rows of the largest table the dashboard is read from.
MaxProfiles == 3

(* ------------------------- program constants --------------------------- *)
WINDOW_MS == 120000
MAX_REQUESTS == 5
\* .limit(10) of the leaderboard query
LEADERBOARD_LIMIT == 10
\* .limit(50) of the dashboard's referrals query
REFERRALS_LIMIT == 50
\* One tick of the model's clock, half a rate-limit window.
TickMs == WINDOW_MS \div 2

Procs == 1..MaxInFlight
Impls == {"ref-dashboard.ts", "waitlist.ts"}
ENDPOINT == "join-waitlist"
IPs == {"203.0.113.7", "unknown"}

(* ------------------------------ strings -------------------------------- *)
Undefined == <<"undefined">>
Null == <<"null">>
\* A JSON value that is no string and not null (a number, say).
NotString == <<"number">>
WS == {" "}

Str(n, ch) == [i \in 1..n |-> ch]

RECURSIVE TrimStart(_)
TrimStart(s) ==
  IF s = <<>> THEN s
  ELSE IF Head(s) \in WS THEN TrimStart(Tail(s)) ELSE s

RECURSIVE TrimEnd(_)
TrimEnd(s) ==
  IF s = <<>> THEN s
  ELSE IF s[Len(s)] \in WS THEN TrimEnd(SubSeq(s, 1, Len(s) - 1)) ELSE s

\* String.prototype.trim
Trim(s) == TrimEnd(TrimStart(s))

\* raw.field?.trim(): undefined stays undefined
OptTrim(s) == IF s = Undefined THEN Undefined ELSE Trim(s)

\* typeof raw.field === "string" ? raw.field.trim() : dflt
TypedTrim(s, dflt) == IF s \in {Undefined, NotString} THEN dflt ELSE Trim(s)

\* JavaScript truthiness of an optional string
Truthy(s) == s # Undefined /\ s # Null /\ s # <<>>

\* /^[^\s@]+@[^\s@]+\.[^\s@]+$/.test(s)
EMAIL_REGEX(s) ==
  /\ \A k \in 1..Len(s) : s[k] \notin WS
  /\ \E i \in 1..Len(s) :
       /\ s[i] = "@"
       /\ \A k \in 1..Len(s) : s[k] = "@" => k = i
       /\ i >= 2
       /\ \E j \in (i + 2)..(Len(s) - 1) : s[j] = "."

(* ------------------------------ requests ------------------------------- *)
Email1 == <<"a", "@", "b", ".", "c">>
Email2 == <<"d", "@", "b", ".", "c">>
Email3 == <<"e", "@", "b", ".", "c">>
Email4 == <<"f", "@", "b", ".", "c">>
\* The addresses clients sign up with, in the order in which they come up.
EmailOrder == <<Email1, Email2, Email3, Email4>>
Emails == { EmailOrder[k] : k \in 1..Len(EmailOrder) }

BogusRef == <<"z", "z">>

\* Raw JSON bodies a client may post (ref is chosen apart, see RawRefs).
Body(obj, name, email, brand) ==
  [isObject |-> obj, full_name |-> name, email |-> email, brand_name |-> brand]

\* {full_name: "Ada", email: " <e> "}
SignupBody(e) == Body(TRUE, <<"A", "d", "a">>, <<" ">> \o e \o <<" ">>, Undefined)

ValidBodies ==
  { SignupBody(e) : e \in Emails }
  \cup { Body(TRUE, <<" ", "A", "d", "a", " ">>, Email1, <<"Q">>) }

InvalidBodies ==
  { Body(FALSE, Undefined, Undefined, Undefined),
    Body(TRUE, <<" ">>, Email1, Undefined),
    Body(TRUE, <<"A">>, <<" ", " ">>, Undefined),
    Body(TRUE, <<"A">>, <<"n", "o", "t", "-", "a", "n", "-", "e", "m", "a", "i", "l">>, Undefined) }

RawBodies == ValidBodies \cup InvalidBodies

\* An address of n characters, well-formed or with no "@" at all.
LongEmail(n, wellFormed) ==
  IF wellFormed THEN Str(n - 4, "x") \o <<"@", "b", ".", "c">> ELSE Str(n, "x")

\* Bodies around every check of the validators, in all combinations.
ProbeNames ==
  {Undefined, NotString, <<" ">>, <<" ", "A", "d", "a", " ">>,
   Str(35, "n"), Str(36, "n"), <<" ">> \o Str(50, "n") \o <<" ">>, Str(51, "n")}
ProbeEmails ==
  {Undefined, NotString, <<" ", " ">>, <<" ">> \o Email1,
   <<"n", "o", "t", "-", "a", "n", "-", "e", "m", "a", "i", "l">>,
   LongEmail(50, TRUE), LongEmail(51, TRUE), LongEmail(51, FALSE),
   LongEmail(200, TRUE), LongEmail(201, TRUE), LongEmail(201, FALSE)}
ProbeBrands == {Undefined, <<" ", "Q">>, Str(51, "b"), Str(70, "b"), Str(71, "b")}
ProbeBodies ==
  { Body(TRUE, n, e, b) : n \in ProbeNames, e \in ProbeEmails, b \in ProbeBrands }

\* A ref a client may send: none, blank, a code nobody has, or (padded) a
\* referral code that some signup record carries at that moment.
RawRefs(kinds, codes) ==
  (IF "none" \in kinds THEN {Undefined} ELSE {})
  \cup (IF "blank" \in kinds THEN {<<" ">>} ELSE {})
  \cup (IF "bogus" \in kinds THEN {BogusRef} ELSE {})
  \cup (IF "code" \in kinds THEN { <<" ">> \o c : c \in codes } ELSE {})

Methods == {"POST", "OPTIONS", "GET"}
ContentTypes == {"application/json", "text/plain"}

(* ----------------------------- validation ------------------------------ *)
\* validateHeaders: TRUE when the content type is accepted.
validateHeaders(ctype) == ctype = "application/json"

MAX_FULL_NAME_LENGTH(i) == IF i = "ref-dashboard.ts" THEN 50 ELSE 35
MAX_EMAIL_LENGTH(i) == IF i = "ref-dashboard.ts" THEN 200 ELSE 50
MAX_BRAND_NAME_LENGTH(i) == IF i = "ref-dashboard.ts" THEN 70 ELSE 50

Invalid(msg) == [err |-> msg, email |-> <<>>, ref |-> Undefined]

\* The email's format is tested before any length.
validateBody_FormatFirst(raw, rawRef) ==
  LET full_name == OptTrim(raw.full_name)
      email == OptTrim(raw.email)
      brand_name == OptTrim(raw.brand_name)
      ref == OptTrim(rawRef)
  IN  IF ~raw.isObject THEN Invalid("invalid_body")
      ELSE IF NotString \in {raw.full_name, raw.email, raw.brand_name, rawRef}
        THEN Invalid("trim is not a function")
      ELSE IF ~Truthy(full_name) THEN Invalid("full_name_required")
      ELSE IF ~Truthy(email) THEN Invalid("email_required")
      ELSE IF ~EMAIL_REGEX(email) THEN Invalid("invalid_email_format")
      ELSE IF Len(full_name) > MAX_FULL_NAME_LENGTH("ref-dashboard.ts")
        THEN Invalid("full_name_too_long")
      ELSE IF Len(email) > MAX_EMAIL_LENGTH("ref-dashboard.ts")
        THEN Invalid("email_too_long")
      ELSE IF Truthy(brand_name)
              /\ Len(brand_name) > MAX_BRAND_NAME_LENGTH("ref-dashboard.ts")
        THEN Invalid("brand_name_too_long")
      ELSE [err |-> "", email |-> email, ref |-> ref]

\* validateBody of src/ref-dashboard.ts: the message thrown ("" when none) and
\* the normalized fields the handler goes on with.  All four fields are
\* trimmed before the first check: a field that is no string throws there.
validateBody(raw, rawRef) ==
  LET full_name == OptTrim(raw.full_name)
      email == OptTrim(raw.email)
      brand_name == OptTrim(raw.brand_name)
      ref == OptTrim(rawRef)
  IN  IF ~raw.isObject THEN Invalid("invalid_body")
      ELSE IF NotString \in {raw.full_name, raw.email, raw.brand_name, rawRef}
        THEN Invalid("trim is not a function")
      ELSE IF ~Truthy(full_name) THEN Invalid("full_name_required")
      ELSE IF ~Truthy(email) THEN Invalid("email_required")
      ELSE IF Len(full_name) > MAX_FULL_NAME_LENGTH("ref-dashboard.ts")
        THEN Invalid("full_name_too_long")
      ELSE IF Len(email) > MAX_EMAIL_LENGTH("ref-dashboard.ts")
        THEN Invalid("email_too_long")
      ELSE IF Truthy(brand_name)
              /\ Len(brand_name) > MAX_BRAND_NAME_LENGTH("ref-dashboard.ts")
        THEN Invalid("brand_name_too_long")
      ELSE IF ~EMAIL_REGEX(email) THEN Invalid("invalid_email_format")
      ELSE [err |-> "", email |-> email, ref |-> ref]

\* validateWaitlistBody of src/supabase/functions/waitlist.ts.
validateWaitlistBody(raw, rawRef) ==
  LET full_name == TypedTrim(raw.full_name, <<>>)
      email == TypedTrim(raw.email, <<>>)
      brand_name == TypedTrim(raw.brand_name, Undefined)
      ref == TypedTrim(rawRef, Undefined)
  IN  IF ~raw.isObject THEN Invalid("Invalid_body")
      ELSE IF ~Truthy(full_name) THEN Invalid("Full_name field is required.")
      ELSE IF ~Truthy(email) THEN Invalid("Email field is required.")
      ELSE IF Len(full_name) > MAX_FULL_NAME_LENGTH("waitlist.ts")
        THEN Invalid("Full_name exceeds 35 chars.")
      ELSE IF Len(email) > MAX_EMAIL_LENGTH("waitlist.ts")
        THEN Invalid("Email exceeds 50 chars.")
      ELSE IF Truthy(brand_name)
              /\ Len(brand_name) > MAX_BRAND_NAME_LENGTH("waitlist.ts")
        THEN Invalid("Brand_name exceeds 50 chars.")
      ELSE IF ~EMAIL_REGEX(email) THEN Invalid("Invalid_email_format")
      ELSE [err |-> "", email |-> email, ref |-> ref]

(* ---------------------------- error mapping ---------------------------- *)
Response(status, error) == [status |-> status, error |-> error]

\* Whatever is not recognised is taken for a failed magic link.
handleError_LooseMatch(msg) ==
  IF msg = "invalid_content_type" THEN Response(415, "invalid_content_type")
  ELSE IF msg \in {"full_name_required", "email_required"}
    THEN Response(400, "missing_field")
  ELSE IF msg \in {"full_name_too_long", "email_too_long", "brand_name_too_long"}
    THEN Response(400, "field_too_long")
  ELSE IF msg = "invalid_email_format" THEN Response(422, "invalid_email")
  ELSE IF msg = "email_quota_exceeded" THEN Response(501, "email_quota_exceeded")
  ELSE IF msg = "email_send_failed" THEN Response(502, "email_send_failed")
  ELSE Response(503, "magic_link_error")

\* handleError of src/ref-dashboard.ts, on the message of the Error thrown;
\* "" stands for a thrown value that is no Error (a datastore error object).
handleError(msg) ==
  IF msg = "invalid_content_type" THEN Response(415, "invalid_content_type")
  ELSE IF msg \in {"full_name_required", "email_required"}
    THEN Response(400, "missing_field")
  ELSE IF msg \in {"full_name_too_long", "email_too_long", "brand_name_too_long"}
    THEN Response(400, "field_too_long")
  ELSE IF msg = "invalid_email_format" THEN Response(422, "invalid_email")
  ELSE IF msg = "magic_link_error" THEN Response(503, "magic_link_error")
  ELSE IF msg = "email_quota_exceeded" THEN Response(501, "email_quota_exceeded")
  ELSE IF msg = "email_send_failed" THEN Response(502, "email_send_failed")
  ELSE Response(500, "internal_server_error")

\* The catch block without its "Brand_" prefix.
catchBlock_NoBrandPrefix(msg) ==
  IF msg = "invalid_content_type" THEN Response(415, "invalid_content_type")
  ELSE IF msg \in {"Full_name field is required.", "Email field is required.",
                   "Full_name exceeds 35 chars.", "Email exceeds 50 chars."}
    THEN Response(400, "invalid_request_body")
  ELSE IF msg = "Invalid_email_format" THEN Response(422, "invalid_email")
  ELSE IF msg = "magic_link_error" THEN Response(503, "magic_link_error")
  ELSE IF msg = "email_quota_exceeded" THEN Response(501, "email_quota_exceeded")
  ELSE IF msg = "email_send_failed" THEN Response(502, "email_send_failed")
  ELSE Response(500, "internal_server_error")

\* The catch block of the handler of src/supabase/functions/waitlist.ts.
catchBlock(msg) ==
  IF msg = "invalid_content_type" THEN Response(415, "invalid_content_type")
  ELSE IF msg \in {"Full_name field is required.", "Email field is required.",
                   "Full_name exceeds 35 chars.", "Email exceeds 50 chars.",
                   "Brand_name exceeds 50 chars."}
    THEN Response(400, "invalid_request_body")
  ELSE IF msg = "Invalid_email_format" THEN Response(422, "invalid_email")
  ELSE IF msg = "magic_link_error" THEN Response(503, "magic_link_error")
  ELSE IF msg = "email_quota_exceeded" THEN Response(501, "email_quota_exceeded")
  ELSE IF msg = "email_send_failed" THEN Response(502, "email_send_failed")
  ELSE Response(500, "internal_server_error")

(* ----------------------------- environment ---------------------------- *)
\* What the world outside the handler does in one run: how many clients send
\* at the same time, from which addresses, how long the clock runs, how many
\* requests come, which calls to the datastore, the auth service and the email
\* provider can fail, what the clients send, which of the read endpoints are
\* called, and how many rows the signup table holds at most when the run
\* starts.
Env(clients, ips, ticks, requests, faults, methods, ctypes, bodies, refs, reads, seeds) ==
  [clients |-> clients, ips |-> ips, ticks |-> ticks, requests |-> requests,
   faults |-> faults, methods |-> methods, ctypes |-> ctypes,
   bodies |-> bodies, refs |-> refs, reads |-> reads, seeds |-> seeds]

Ip1 == "203.0.113.7"
Json == {"application/json"}

\* Every kind of request, one at a time, nothing failing.
GatewayRun ==
  Env(1, {Ip1}, 0, 2, {}, Methods, ContentTypes, RawBodies,
      {"none", "blank"}, {}, 0)

\* One request, its body around every check of the validators.
ProbeRun ==
  Env(1, {Ip1}, 0, 1, {}, Methods, ContentTypes, ProbeBodies,
      {"none", "blank"}, {}, 0)

\* One client, the clock running, the counting store failing at times.
ClockRun ==
  Env(1, {Ip1}, MaxTicks, MaxSequential, {"rate_select", "rate_insert"},
      {"POST"}, Json, {SignupBody(Email1)}, {"none"}, {}, 0)

\* Two addresses in one window.
TwoIpRun ==
  Env(1, IPs, 0, MaxSequential, {}, {"POST"}, Json, {SignupBody(Email1)}, {"none"},
      {}, 0)

\* Concurrent clients of one address in one window.
BurstRun ==
  Env(MaxInFlight, {Ip1}, 0, MaxSequential, {}, {"POST"}, Json,
      {SignupBody(Email1)}, {"none"}, {}, 0)

\* Concurrent signups of one email, every later call failing at times.
SignupRun ==
  Env(MaxInFlight, {Ip1}, 0, MaxConcurrent, {"existing", "insert", "link", "mail"},
      {"POST"}, Json, {SignupBody(Email1)}, {"none"}, {}, 0)

\* Concurrent signups with referrals, as many requests as there are emails.
ReferralRun ==
  Env(MaxInFlight, {Ip1}, 0, Cardinality(Emails), {}, {"POST"}, Json,
      {SignupBody(e) : e \in Emails}, {"none", "code"}, {}, 0)

\* Signups with referrals one at a time, the referral calls failing at times.
ReferralFaultRun ==
  Env(1, {Ip1}, 0, MaxConcurrent, {"ref_select", "ref_update"}, {"POST"}, Json,
      {SignupBody(e) : e \in Emails}, {"none", "bogus", "code"}, {}, 0)

\* The leaderboard read from tables of up to MaxRows rows, no signup going on.
BoardRun ==
  Env(0, {Ip1}, 0, 0, {"board_select"}, {"POST"}, Json, {}, {"none"},
      {"leaderboard"}, MaxRows)

\* The dashboard read from tables of up to MaxProfiles rows, no signup going
\* on.
DashboardRun ==
  Env(0, {Ip1}, 0, 0, {"get_user", "profile_select", "referrals_select"},
      {"POST"}, Json, {}, {"none"}, {"dashboard"}, MaxProfiles)

\* The dashboard read while two signups come one after the other, the second
\* with the first one's code.
ReadWriteRun ==
  Env(1, {Ip1}, 0, 2, {"referrals_select"}, {"POST"}, Json,
      {SignupBody(Email1), SignupBody(Email2)}, {"none", "code"},
      {"dashboard"}, 0)

\* Two signups one after the other, the second with the first one's code or
\* an unknown one, while the referrer's select or update may fail.
ReferralPairRun ==
  Env(1, {Ip1}, 0, 2, {"ref_select", "ref_update"}, {"POST"}, Json,
      {SignupBody(Email1), SignupBody(Email2)}, {"none", "bogus", "code"},
      {}, 0)

Environments ==
  {GatewayRun, ProbeRun, ClockRun, TwoIpRun, BurstRun, SignupRun, ReferralRun,
   ReferralFaultRun, BoardRun, DashboardRun, ReadWriteRun, ReferralPairRun}

(* ------------------------------- state --------------------------------- *)
VARIABLES
  impl,        \* which version of the signup handler is deployed
  env,         \* the run's environment
  now,         \* Date.now() / the datastore's clock, in ms
  signups,     \* table waitlist_signups, in order of insertion
  rateLimits,  \* table waitlist_rate_limits, a bag of rows
  req,         \* the requests in flight: req[p] is the handler's frame
  nreq,        \* requests received so far
  denied,      \* history: the addresses the rate limiter has turned away
  reader       \* the dashboard or leaderboard request in flight

vars == <<impl, env, now, signups, rateLimits, req, nreq, denied, reader>>

\* resend.emails.send resolved: no error thrown.
Resolved ==
  [ok |-> TRUE, status429 |-> FALSE, name |-> FALSE, code |-> FALSE,
   message |-> "other"]

\* What a client sent: the content type, the JSON body and its ref.
Sent(ctype, raw, rawRef) == [ctype |-> ctype, raw |-> raw, ref |-> rawRef]

NothingSent == Sent("", Body(FALSE, Undefined, Undefined, Undefined), Undefined)

\* mail is what the frame's last call of resend.emails.send came to, sent
\* what the validators were given, thrown the message of the Error the try
\* block threw.
Idle ==
  [pc |-> "idle", ip |-> "", email |-> <<>>, ref |-> Undefined, refRead |-> 0,
   known |-> FALSE, status |-> 0, error |-> "", log |-> <<>>, mail |-> Resolved,
   sent |-> NothingSent, thrown |-> "", method |-> ""]

\* The outcomes of a call that the run's environment lets fail.
MayFail(fault) == IF fault \in env.faults THEN BOOLEAN ELSE {FALSE}

(* ----------------------------- datastore ------------------------------- *)
Digits ==
  <<"1", "2", "3", "4", "5", "6", "7", "8", "9", "A", "B", "C", "D", "E", "F">>

\* The referral_code column's default: a fresh code for every row.
NewReferralCode(rows) == <<"K", Digits[Len(rows) + 1]>>

Codes(rows) == { rows[i].referral_code : i \in 1..Len(rows) }

\* The unique constraint on waitlist_signups.email.
EmailTaken(rows, email) == \E i \in 1..Len(rows) : rows[i].email = email

\* A retried insert: the row goes in twice.
InsertRow_Twice(rows, email, referred_by) ==
  LET row(n) == [email |-> email, referral_code |-> <<"K", Digits[n]>>,
                 referred_by |-> referred_by, referral_count |-> 0]
  IN  rows \o <<row(Len(rows) + 1), row(Len(rows) + 2)>>

\* insert({full_name, email, brand_name, referred_by}) on waitlist_signups.
InsertRow(rows, email, referred_by) ==
  Append(rows, [email |-> email,
                referral_code |-> NewReferralCode(rows),
                referred_by |-> referred_by,
                referral_count |-> 0])

\* The datastore adds one to the stored count, whatever was read.
UpdateCount_InPlace(rows, code, n) ==
  [i \in 1..Len(rows) |->
     IF rows[i].referral_code = code
       THEN [rows[i] EXCEPT !.referral_count = @ + 1] ELSE rows[i]]

\* update({referral_count: n}).eq("referral_code", code)
UpdateCount(rows, code, n) ==
  [i \in 1..Len(rows) |->
     IF rows[i].referral_code = code
       THEN [rows[i] EXCEPT !.referral_count = n] ELSE rows[i]]

\* select(...).eq("referral_code", code).single(): the rows found
RowsByCode(rows, code) == { i \in 1..Len(rows) : rows[i].referral_code = code }

\* select("*", {count: "exact"}).eq("ip", ip).eq("endpoint", e).gte("created_at", from)
CountSince(rl, ip, endpoint, from) ==
  LET hit == { r \in DOMAIN rl :
                 r.ip = ip /\ r.endpoint = endpoint /\ r.created_at >= from }
  IN  BagCardinality([r \in hit |-> rl[r]])

\* insert({ip, endpoint}) on waitlist_rate_limits; created_at defaults to now.
RateRow(ip, endpoint, at) == [ip |-> ip, endpoint |-> endpoint, created_at |-> at]

(* --------------------------- handler pieces ---------------------------- *)
Logged(s, tag) == [s EXCEPT !.log = Append(@, tag)]

\* The handler returns a Response.
Done(s, r) == [s EXCEPT !.pc = "done", !.status = r.status, !.error = r.error]

\* The handler's try block throws: its catch maps the message to a Response.
Throw(i, s, msg) ==
  Done([s EXCEPT !.thrown = msg],
       IF i = "ref-dashboard.ts" THEN handleError(msg) ELSE catchBlock(msg))

\* handleCors / validateCors: the Response for a method that stops here.
handleCors(method) ==
  IF method = "OPTIONS" THEN Response(204, "")
  ELSE IF method # "POST" THEN Response(405, "method_not_allowed")
  ELSE Response(0, "")

\* The limit is compared with > instead of >=.
CountVerdict_OffByOne(selectError, count) ==
  IF selectError THEN "fail_open"
  ELSE IF count > MAX_REQUESTS THEN "deny"
  ELSE "insert"

\* A failed count turns the caller away.
CountVerdict_FailClosed(selectError, count) ==
  IF selectError \/ count >= MAX_REQUESTS THEN "deny" ELSE "insert"

\* checkRateLimit up to its insert: fail open on a failed count, deny at the
\* limit, else go on to insert a row.
CountVerdict(selectError, count) ==
  IF selectError THEN "fail_open"
  ELSE IF count >= MAX_REQUESTS THEN "deny"
  ELSE "insert"

\* The 429 is built but not returned: the handler goes on.
Denied_NotReturned(s) == [Logged(s, "rate_limit:denied") EXCEPT !.pc = "rl_insert"]

\* The handler's answer when checkRateLimit returns false.
Denied(s) == Done(Logged(s, "rate_limit:denied"), Response(429, "rate_limit_exceeded"))

\* The window never moves on.
WindowStart_Fixed(t) == 0 - WINDOW_MS

\* The start of the trailing window: Date.now() - WINDOW_MS
WindowStart(t) == t - WINDOW_MS

\* referred_by: ref ?? null
ReferredBy(ref) == IF ref = Undefined THEN Null ELSE ref

\* What follows the rate limiter in the try block, for one content type and
\* body: validateHeaders, the body's validation, and the first datastore call
\* the handler then issues.
Validate(i, s, ctype, raw, rawRef) ==
  LET s1 == [Logged(s, "validator") EXCEPT !.sent = Sent(ctype, raw, rawRef)]
      v == IF i = "ref-dashboard.ts" THEN validateBody(raw, rawRef)
           ELSE validateWaitlistBody(raw, rawRef)
  IN  IF ~validateHeaders(ctype) THEN Throw(i, s1, "invalid_content_type")
      ELSE IF v.err # "" THEN Throw(i, s1, v.err)
      ELSE [s1 EXCEPT !.pc = IF i = "ref-dashboard.ts" THEN "select_existing"
                              ELSE "insert",
                      !.email = v.email, !.ref = v.ref,
                      !.known = EmailTaken(signups, v.email)]

\* An address that a record or a request in flight carries.
InUse(e) == EmailTaken(signups, e) \/ \E q \in Procs : req[q].email = e

\* Addresses differ in name only: of those not in use, clients take the
\* first in EmailOrder.
NextToUse(raw) ==
  \A k \in 2..Len(EmailOrder) :
    Trim(raw.email) = EmailOrder[k] =>
      InUse(EmailOrder[k]) \/ InUse(EmailOrder[k - 1])

\* The frames the handler can be in after validation, over what the client
\* of this request may have sent.
Validated(i, s) ==
  { Validate(i, s, ctype, raw, rawRef) :
      ctype \in env.ctypes, raw \in { b \in env.bodies : NextToUse(b) },
      rawRef \in RawRefs(env.refs, Codes(signups)) }

(* ------------------------------- actions ------------------------------- *)
\* A request arrives: handleCors, then checkRateLimit's counting query.
Request(p) ==
  /\ req[p].pc = "idle"
  /\ p <= env.clients
  /\ \A q \in Procs : q < p => req[q].pc # "idle"
  /\ nreq < env.requests
  /\ nreq' = nreq + 1
  /\ \E method \in env.methods, ip \in env.ips, selectError \in MayFail("rate_select") :
       LET s0 == Logged([Idle EXCEPT !.ip = ip, !.method = method], "gateway")
           s1 == IF selectError THEN Logged(s0, "rate_limit:select_error") ELSE s0
           cors == handleCors(method)
           count == CountSince(rateLimits, ip, ENDPOINT, WindowStart(now))
           verdict == CountVerdict(selectError, count)
       IN  IF cors.status # 0
             THEN req' = [req EXCEPT ![p] = Done(s0, cors)] /\ UNCHANGED denied
           ELSE IF verdict = "fail_open"
             THEN /\ \E s2 \in Validated(impl, s1) :
                       req' = [req EXCEPT ![p] = s2]
                  /\ UNCHANGED denied
           ELSE IF verdict = "deny"
             THEN req' = [req EXCEPT ![p] = Denied(s1)] /\ denied' = denied \cup {ip}
           ELSE /\ req' = [req EXCEPT ![p] =
                       [Logged(s1, "rate_limit:counted") EXCEPT !.pc = "rl_insert"]]
                /\ UNCHANGED denied
  /\ UNCHANGED <<reader, impl, env, now, signups, rateLimits>>

\* checkRateLimit's insert of the new row, then the validation.
RateLimitInsert(p) ==
  /\ req[p].pc = "rl_insert"
  /\ \E insertError \in MayFail("rate_insert") :
       /\ rateLimits' = IF insertError THEN rateLimits
                        ELSE rateLimits (+) SetToBag({RateRow(req[p].ip, ENDPOINT, now)})
       /\ \E s2 \in Validated(impl, Logged(req[p], IF insertError
                                                     THEN "rate_limit:insert_error"
                                                     ELSE "rate_limit:inserted")) :
            req' = [req EXCEPT ![p] = s2]
  /\ UNCHANGED <<reader, impl, env, now, signups, nreq, denied>>

\* The returning-user check of src/ref-dashboard.ts: select by email, .single().
\* The query's error is not looked at: a failed query reads as "no such user".
SelectExisting(p) ==
  /\ req[p].pc = "select_existing"
  /\ \E queryError \in MayFail("existing") :
       LET existingProfile == ~queryError /\ EmailTaken(signups, req[p].email)
       IN  req' = [req EXCEPT ![p] =
             IF existingProfile
               THEN [Logged(@, "existing:found") EXCEPT !.pc = "returning_link"]
               ELSE [Logged(@, IF queryError THEN "existing:error" ELSE "existing:none")
                       EXCEPT !.pc = "insert"]]
  /\ UNCHANGED <<reader, impl, env, now, signups, rateLimits, nreq, denied>>

\* What generateLink hands back: a link, an error, or neither.
LinkResults ==
  IF "link" \in env.faults THEN {"ok", "error", "no_properties", "no_action_link"}
  ELSE {"ok"}

\* Returning user: generateLink, then "Failed to generate magic link." without
\* an action link.
ReturningLink(p) ==
  /\ req[p].pc = "returning_link"
  /\ \E link \in LinkResults :
       req' = [req EXCEPT ![p] =
         IF link = "ok"
           THEN [Logged(@, "link:ok") EXCEPT !.pc = "returning_mail"]
           ELSE Throw(impl, Logged(@, "link:failed"), "Failed to generate magic link.")]
  /\ UNCHANGED <<reader, impl, env, now, signups, rateLimits, nreq, denied>>

\* What the message of a provider error can say about the quota.
MailMessages == {"other", "quota", "daily email quota"}

\* What resend.emails.send does: it resolves, or throws an error that may
\* carry status 429, the name or the code "daily_quota_exceeded", and a
\* message that may speak of the quota.
MailResults ==
  {Resolved}
  \cup (IF "mail" \in env.faults
          THEN [ok : {FALSE}, status429 : BOOLEAN, name : BOOLEAN,
                code : BOOLEAN, message : MailMessages]
          ELSE {})

\* Returning user: the "Access Your Dashboard." email, then 200.
ReturningMail(p) ==
  /\ req[p].pc = "returning_mail"
  /\ \E mail \in MailResults :
       req' = [req EXCEPT ![p] =
         IF mail.ok
           THEN Done(Logged(@, "mail:sent"), Response(200, ""))
           ELSE Throw(impl, [Logged(@, "mail:failed") EXCEPT !.mail = mail],
                      "provider error")]
  /\ UNCHANGED <<reader, impl, env, now, signups, rateLimits, nreq, denied>>

\* handleReferralIncrement's entry: nothing to do without a ref.
AfterInsert(s) ==
  [s EXCEPT !.pc = IF Truthy(s.ref) THEN "ref_select" ELSE "generate_link"]

\* The response to a failed insert that is no duplicate.
InsertFailed(i, s) ==
  IF i = "ref-dashboard.ts" THEN Throw(i, s, "")
  ELSE Done(s, Response(500, "db_error"))

\* The duplicate is rethrown like any other datastore error.
DuplicateEntry_Rethrown(i, s) == Done(s, Response(500, "internal_server_error"))

\* The response to an insert that hits the unique constraint on email.
DuplicateEntry(i, s) == Done(s, Response(409, "duplicate_entry"))

\* The insert stores its row although it reports an error.
InsertSignup_Stored(p) ==
  /\ req[p].pc = "insert"
  /\ \E dbError \in MayFail("insert") :
       IF dbError
         THEN /\ req' = [req EXCEPT ![p] = InsertFailed(impl, Logged(@, "insert:error"))]
              /\ signups' = InsertRow(signups, <<"x">> \o req[p].email, Null)
       ELSE IF EmailTaken(signups, req[p].email)
         THEN /\ req' = [req EXCEPT ![p] = DuplicateEntry(impl, Logged(@, "insert:duplicate"))]
              /\ UNCHANGED signups
       ELSE /\ signups' = InsertRow(signups, req[p].email, ReferredBy(req[p].ref))
            /\ req' = [req EXCEPT ![p] = AfterInsert(Logged(@, "insert:ok"))]
  /\ UNCHANGED <<reader, impl, env, now, rateLimits, nreq, denied>>

\* New user: the insert into waitlist_signups and what the handler makes of
\* its error.
InsertSignup(p) ==
  /\ req[p].pc = "insert"
  /\ \E dbError \in MayFail("insert") :
       IF dbError
         THEN /\ req' = [req EXCEPT ![p] = InsertFailed(impl, Logged(@, "insert:error"))]
              /\ UNCHANGED signups
       ELSE IF EmailTaken(signups, req[p].email)
         THEN /\ req' = [req EXCEPT ![p] = DuplicateEntry(impl, Logged(@, "insert:duplicate"))]
              /\ UNCHANGED signups
       ELSE /\ signups' = InsertRow(signups, req[p].email, ReferredBy(req[p].ref))
            /\ req' = [req EXCEPT ![p] = AfterInsert(Logged(@, "insert:ok"))]
  /\ UNCHANGED <<reader, impl, env, now, rateLimits, nreq, denied>>

\* handleReferralIncrement, the read: select referral_count by referral_code.
ReferrerSelect(p) ==
  /\ req[p].pc = "ref_select"
  /\ \E selectError \in MayFail("ref_select") :
       LET found == RowsByCode(signups, req[p].ref)
           single == ~selectError /\ Cardinality(found) = 1
       IN  req' = [req EXCEPT ![p] =
             IF single
               THEN [Logged(@, "referrer:read") EXCEPT
                       !.pc = "ref_update",
                       !.refRead = signups[CHOOSE i \in found : TRUE].referral_count]
               ELSE [Logged(@, IF selectError THEN "referrer:error" ELSE "referrer:none")
                       EXCEPT !.pc = "generate_link"]]
  /\ UNCHANGED <<reader, impl, env, now, signups, rateLimits, nreq, denied>>

\* The write goes the wrong way.
Incremented_Down(read) == read - 1

\* The write counts the referral twice.
Incremented_ByTwo(read) == read + 2

\* The value handleReferralIncrement writes: (referrer.referral_count ?? 0) + 1
Incremented(read) == read + 1

\* A failed write is thrown instead of logged.
ReferrerUpdate_Throws(p) ==
  /\ req[p].pc = "ref_update"
  /\ \E updateError \in MayFail("ref_update") :
       /\ signups' = IF updateError THEN signups
                     ELSE UpdateCount(signups, req[p].ref, Incremented(req[p].refRead))
       /\ req' = [req EXCEPT ![p] =
            IF updateError
              THEN Throw(impl, Logged(@, "referrer:update_error"), "")
              ELSE [Logged(@, "referrer:updated")
                      EXCEPT !.pc = "generate_link", !.refRead = 0]]
  /\ UNCHANGED <<reader, impl, env, now, rateLimits, nreq, denied>>

\* handleReferralIncrement, the write.
ReferrerUpdate(p) ==
  /\ req[p].pc = "ref_update"
  /\ \E updateError \in MayFail("ref_update") :
       /\ signups' = IF updateError THEN signups
                     ELSE UpdateCount(signups, req[p].ref, Incremented(req[p].refRead))
       /\ req' = [req EXCEPT ![p] =
            [Logged(@, IF updateError THEN "referrer:update_error" ELSE "referrer:updated")
               EXCEPT !.pc = "generate_link", !.refRead = 0]]
  /\ UNCHANGED <<reader, impl, env, now, rateLimits, nreq, denied>>

\* Whether the handler gives up on the link: linkError || !action_link in
\* src/ref-dashboard.ts, linkError || !linkData in waitlist.ts.
LinkRejected(i, link) ==
  IF i = "ref-dashboard.ts" THEN link # "ok" ELSE link = "error"

\* New user: generateLink for the new email.
GenerateLink(p) ==
  /\ req[p].pc = "generate_link"
  /\ \E link \in LinkResults :
       req' = [req EXCEPT ![p] =
         IF LinkRejected(impl, link)
           THEN Throw(impl, Logged(@, "link:failed"), "magic_link_error")
         ELSE IF link = "no_properties"
           THEN Throw(impl, Logged(@, "link:failed"), "TypeError")
         ELSE [Logged(@, IF link = "ok" THEN "link:ok" ELSE "link:undefined")
                 EXCEPT !.pc = "send_mail"]]
  /\ UNCHANGED <<reader, impl, env, now, signups, rateLimits, nreq, denied>>

\* The message the handler rethrows for a failed confirmation email.
EmailErrorMessage(i, mail) ==
  IF i = "ref-dashboard.ts"
    THEN IF mail.status429 \/ mail.message # "other" \/ mail.code
           THEN "email_quota_exceeded"
         ELSE "email_send_failed"
    ELSE IF mail.status429
            /\ (mail.name \/ mail.code \/ mail.message = "daily email quota")
           THEN "email_quota_exceeded"
         ELSE "email_send_failed"

\* The confirmation email is sent a second time when the first send failed.
SendConfirmationEmail_Retried(p) ==
  /\ req[p].pc = "send_mail"
  /\ \E mail \in MailResults :
       req' = [req EXCEPT ![p] =
         IF mail.ok
           THEN Done(Logged(@, "mail:sent"), Response(201, ""))
         ELSE IF \A k \in 1..Len(@.log) : @.log[k] # "mail:failed"
           THEN [Logged(@, "mail:failed") EXCEPT !.mail = mail]
         ELSE Throw(impl, [Logged(@, "mail:failed") EXCEPT !.mail = mail],
                    EmailErrorMessage(impl, mail))]
  /\ UNCHANGED <<reader, impl, env, now, signups, rateLimits, nreq, denied>>

\* New user: the confirmation email, then 201.
SendConfirmationEmail(p) ==
  /\ req[p].pc = "send_mail"
  /\ \E mail \in MailResults :
       req' = [req EXCEPT ![p] =
         IF mail.ok
           THEN Done(Logged(@, "mail:sent"), Response(201, ""))
           ELSE Throw(impl, [Logged(@, "mail:failed") EXCEPT !.mail = mail],
                      EmailErrorMessage(impl, mail))]
  /\ UNCHANGED <<reader, impl, env, now, signups, rateLimits, nreq, denied>>

\* The response has gone out: the frame is free for the next request.
Respond(p) ==
  /\ req[p].pc = "done"
  /\ req' = [req EXCEPT ![p] = Idle]
  /\ UNCHANGED <<reader, impl, env, now, signups, rateLimits, nreq, denied>>

\* Time passes.
Tick ==
  /\ now < env.ticks * TickMs
  /\ now' = now + TickMs
  /\ UNCHANGED <<reader, impl, env, signups, rateLimits, req, nreq, denied>>

(* --------------------------- read endpoints ---------------------------- *)
\* The frame of a dashboard or leaderboard request: the method, what the
\* Authorization header held, the identity the auth service resolved, the
\* signup record found for it, and the Response (status, error, and the body's
\* leaderboard, profile and recentReferrals).
\* jwt is the token cut from the header, verdict what getUser came to, user
\* the identity it gave, row the signup record the profile query returned, log
\* the calls made. A value that may be null is a sequence, empty for null.
NoReader ==
  [pc |-> "idle", endpoint |-> "", method |-> "", auth |-> <<>>, jwt |-> "",
   verdict |-> "", user |-> <<>>, row |-> <<>>, log |-> <<>>,
   status |-> 0, error |-> "", leaderboard |-> <<>>,
   profile |-> <<>>, recentReferrals |-> <<>>]

ReadMethods == {"OPTIONS", "GET", "POST"}

\* Tables a run can start from: row k was inserted k-th and referred by an
\* earlier row as the shape tells; a row's count is the number of rows it
\* referred, one less where an update of the count was lost.
SeedShapes == {"none", "chain", "star", "hub", "tree"}

SeedEmail(k) == <<Digits[k], "@", "b", ".", "c">>

SeedParent(shape, k) ==
  IF k = 1 \/ shape = "none" THEN 0
  ELSE IF shape = "chain" THEN k - 1
  ELSE IF shape = "star" THEN 1
  ELSE IF shape = "hub" THEN (IF k = 2 THEN 1 ELSE 2)
  ELSE k \div 2

SeedTable(n, shape, lost) ==
  LET referred(i) == Cardinality({ k \in 1..n : SeedParent(shape, k) = i })
      row(k) ==
        [email |-> SeedEmail(k),
         referral_code |-> <<"K", Digits[k]>>,
         referred_by |-> IF SeedParent(shape, k) = 0 THEN Null
                         ELSE <<"K", Digits[SeedParent(shape, k)]>>,
         referral_count |-> IF lost /\ referred(k) > 0 THEN referred(k) - 1
                            ELSE referred(k)]
  IN  [k \in 1..n |-> row(k)]

SeedTables(max) ==
  { SeedTable(n, shape, lost) :
      n \in 0..max, shape \in SeedShapes, lost \in BOOLEAN }

\* The view waitlist_leaderboard, as the query reads it: one line per signup
\* with the columns selected.
waitlist_leaderboard(rows) ==
  [i \in 1..Len(rows) |->
     [referral_code |-> rows[i].referral_code,
      referral_count |-> rows[i].referral_count]]

\* The orders the datastore may give rows of equal referral_count: every one
\* for a small table, the order of insertion and its reverse for a large one.
TieOrders(n) ==
  IF n <= MaxShuffled
    THEN { f \in [1..n -> 1..n] : \A i, j \in 1..n : i # j => f[i] # f[j] }
    ELSE { [i \in 1..n |-> i], [i \in 1..n |-> n + 1 - i] }

\* .order("referral_count", {ascending: false})
order(view, tie) ==
  LET n == Len(view)
      before(j, i) ==
        \/ view[j].referral_count > view[i].referral_count
        \/ view[j].referral_count = view[i].referral_count /\ tie[j] < tie[i]
      place(i) == 1 + Cardinality({ j \in 1..n : before(j, i) })
  IN  [k \in 1..n |-> view[CHOOSE i \in 1..n : place(i) = k]]

\* .limit(count)
limit(data, count) ==
  SubSeq(data, 1, IF Len(data) < count THEN Len(data) ELSE count)

\* The rank is the index itself.
Ranked_FromZero(data) ==
  [k \in 1..Len(data) |->
     [referral_code |-> data[k].referral_code,
      referral_count |-> data[k].referral_count,
      rank |-> k - 1]]

\* data.map((user, index) => ({...user, rank: index + 1})); the k-th element
\* of the sequence is the one of index k - 1.
Ranked(data) ==
  [k \in 1..Len(data) |->
     [referral_code |-> data[k].referral_code,
      referral_count |-> data[k].referral_count,
      rank |-> (k - 1) + 1]]

\* error.message of a failed query: text of the datastore.
DatastoreMessages ==
  {"canceling statement due to statement timeout",
   "relation \"public.waitlist_leaderboard\" does not exist"}

\* The leaderboard's handler: one query, answered at once.
Leaderboard ==
  /\ "leaderboard" \in env.reads
  /\ reader.pc = "idle"
  /\ \E method \in ReadMethods, failed \in MayFail("board_select"),
        message \in DatastoreMessages, tie \in TieOrders(Len(signups)) :
       LET r0 == [NoReader EXCEPT !.pc = "done", !.endpoint = "leaderboard",
                                  !.method = method]
           data == limit(order(waitlist_leaderboard(signups), tie),
                         LEADERBOARD_LIMIT)
       IN  reader' =
             IF method = "OPTIONS" THEN [r0 EXCEPT !.status = 200]
             ELSE IF method # "GET" THEN [r0 EXCEPT !.status = 405]
             ELSE IF failed
               THEN [r0 EXCEPT !.status = 400, !.error = message]
             ELSE [r0 EXCEPT !.status = 200, !.leaderboard = Ranked(data)]
  /\ UNCHANGED <<impl, env, now, signups, rateLimits, req, nreq, denied>>

\* The Authorization headers sent: none, or a scheme of seven characters
\* followed by a token.
Tokens == {"", "forged", "jwt1", "jwt2", "jwt3", "jwt4", "jwt5"}
Schemes == {"Bearer ", "bearer ", "Basic  "}
AuthHeaders == {<<>>} \cup { <<scheme, jwt>> : scheme \in Schemes, jwt \in Tokens }

\* The header is accepted whatever its scheme.
StartsWithBearer_AnyScheme(authHeader) == authHeader # <<>>

\* authHeader?.startsWith("Bearer ")
StartsWithBearer(authHeader) == authHeader # <<>> /\ authHeader[1] = "Bearer "

\* authHeader.slice(7)
Slice7(authHeader) == authHeader[2]

\* The identities the auth service has issued tokens for: two whose emails
\* are those of the first rows of a table the run starts from, two whose
\* emails sign up during a run, and one without an email.
Identity(jwt) ==
  IF jwt = "jwt1" THEN <<[email |-> SeedEmail(1)]>>
  ELSE IF jwt = "jwt2" THEN <<[email |-> SeedEmail(2)]>>
  ELSE IF jwt = "jwt3" THEN <<[email |-> Email1]>>
  ELSE IF jwt = "jwt4" THEN <<[email |-> Undefined]>>
  ELSE IF jwt = "jwt5" THEN <<[email |-> Email2]>>
  ELSE <<>>

\* supabase.auth.getUser(jwt): the user of a token the service issued, an
\* error for any other; when the call can fail, an error, no user without an
\* error, or an exception.
getUser(jwt) ==
  LET answer == IF Identity(jwt) = <<>>
                  THEN [thrown |-> FALSE, error |-> TRUE, user |-> <<>>]
                  ELSE [thrown |-> FALSE, error |-> FALSE, user |-> Identity(jwt)]
  IN  {answer} \cup
      IF "get_user" \in env.faults
        THEN {[thrown |-> FALSE, error |-> TRUE, user |-> <<>>],
              [thrown |-> FALSE, error |-> FALSE, user |-> <<>>],
              [thrown |-> TRUE, error |-> FALSE, user |-> <<>>]}
        ELSE {}

\* The Response of the dashboard's handler.
DashDone(r, status, error) ==
  [r EXCEPT !.pc = "done", !.status = status, !.error = error]

\* The dashboard's handler up to its first call: method and header.
DashboardRequest ==
  /\ "dashboard" \in env.reads
  /\ reader.pc = "idle"
  /\ \E method \in ReadMethods, authHeader \in AuthHeaders :
       LET r0 == [NoReader EXCEPT !.endpoint = "dashboard", !.method = method,
                                  !.auth = authHeader]
       IN  reader' =
             IF method = "OPTIONS" THEN DashDone(r0, 204, "")
             ELSE IF method # "GET" THEN DashDone(r0, 405, "")
             ELSE IF ~StartsWithBearer(authHeader)
               THEN DashDone(r0, 401, "unauthorized")
             ELSE [r0 EXCEPT !.pc = "get_user", !.jwt = Slice7(authHeader)]
  /\ UNCHANGED <<impl, env, now, signups, rateLimits, req, nreq, denied>>

\* const {data: {user}, error: authError} = await supabase.auth.getUser(jwt)
DashGetUser ==
  /\ reader.pc = "get_user"
  /\ \E res \in getUser(reader.jwt) :
       LET r1 == [reader EXCEPT !.log = Append(@, "getUser")]
       IN  reader' =
             IF res.thrown
               THEN DashDone([r1 EXCEPT !.verdict = "thrown"], 500,
                             "internal_server_error")
             ELSE IF res.error \/ res.user = <<>>
               THEN DashDone([r1 EXCEPT !.verdict = "rejected"], 401,
                             "invalid_token")
             ELSE [r1 EXCEPT !.pc = "profile", !.verdict = "verified",
                             !.user = res.user]
  /\ UNCHANGED <<impl, env, now, signups, rateLimits, req, nreq, denied>>

\* select(...).eq("email", user.email).single(): the rows found
RowsByEmail(rows, email) == { i \in 1..Len(rows) : rows[i].email = email }

\* The profile query and the check of its result.
DashProfile ==
  /\ reader.pc = "profile"
  /\ \E profileError \in MayFail("profile_select") :
       LET found == RowsByEmail(signups, reader.user[1].email)
           single == ~profileError /\ Cardinality(found) = 1
           r1 == [reader EXCEPT !.log = Append(@, "profile")]
       IN  reader' =
             IF ~single THEN DashDone(r1, 404, "profile_not_found")
             ELSE [r1 EXCEPT !.pc = "referrals",
                             !.row = <<signups[CHOOSE i \in found : TRUE]>>]
  /\ UNCHANGED <<impl, env, now, signups, rateLimits, req, nreq, denied>>

\* The referrals query without its filter: every row, the latest first.
ReferralsOf_Unfiltered(rows, code) ==
  [k \in 1..Len(rows) |-> rows[Len(rows) + 1 - k]]

\* select(...).eq("referred_by", code).order("created_at", {ascending:
\* false}): rows are created in the order of their insertion, so the latest
\* come first.
ReferralsOf(rows, code) ==
  LET found == { i \in 1..Len(rows) : rows[i].referred_by = code }
      place(i) == 1 + Cardinality({ j \in found : j > i })
  IN  [k \in 1..Cardinality(found) |->
         rows[CHOOSE i \in found : place(i) = k]]

\* The referrals query, whose error is not read, and the 200 Response.
DashReferrals ==
  /\ reader.pc = "referrals"
  /\ \E failed \in MayFail("referrals_select") :
       LET profile == reader.row[1]
           referrals == IF failed THEN <<>>
                        ELSE <<limit(ReferralsOf(signups, profile.referral_code),
                                     REFERRALS_LIMIT)>>
           list == IF referrals = <<>> THEN <<>> ELSE referrals[1]
           r1 == [reader EXCEPT !.log = Append(@, "referrals")]
       IN  reader' =
             [DashDone(r1, 200, "") EXCEPT
                !.profile = <<[code |-> profile.referral_code,
                               referrals |-> profile.referral_count]>>,
                !.recentReferrals =
                   [k \in 1..Len(list) |-> [email |-> list[k].email]]]
  /\ UNCHANGED <<impl, env, now, signups, rateLimits, req, nreq, denied>>

\* The reader's Response is sent and counted in the rate limiter's table.
ReaderRespond_Counted ==
  /\ reader.pc = "done"
  /\ reader' = NoReader
  /\ rateLimits' = rateLimits (+) SetToBag({RateRow(Ip1, reader.endpoint, now)})
  /\ UNCHANGED <<impl, env, now, signups, req, nreq, denied>>

\* The runtime sends the reader's Response.
ReaderRespond ==
  /\ reader.pc = "done"
  /\ reader' = NoReader
  /\ UNCHANGED <<impl, env, now, signups, rateLimits, req, nreq, denied>>

Init ==
  /\ impl \in Impls
  /\ env \in Environments
  /\ now = 0
  /\ signups \in SeedTables(env.seeds)
  /\ rateLimits = EmptyBag
  /\ req = [p \in Procs |-> Idle]
  /\ nreq = 0
  /\ denied = {}
  /\ reader = NoReader

\* A handler has returned its Response and the runtime is sending it.
Responding == reader.pc = "done" \/ \E q \in Procs : req[q].pc = "done"

\* A handler is waiting for the auth service or the email provider: its next
\* step reads and writes nothing another request sees.
Away ==
  \E q \in Procs :
    req[q].pc \in {"returning_link", "returning_mail", "generate_link", "send_mail"}

\* A Response goes out before anything else happens, and a step that touches
\* only its own frame before any step on the store or the clock: neither
\* changes what the other requests find.
Next ==
  \/ \E p \in Procs : ~Responding /\ ~Away /\ Request(p)
  \/ \E p \in Procs : ~Responding /\ ~Away /\ RateLimitInsert(p)
  \/ \E p \in Procs : ~Responding /\ ~Away /\ SelectExisting(p)
  \/ \E p \in Procs : ~Responding /\ ReturningLink(p)
  \/ \E p \in Procs : ~Responding /\ ReturningMail(p)
  \/ \E p \in Procs : ~Responding /\ ~Away /\ InsertSignup(p)
  \/ \E p \in Procs : ~Responding /\ ~Away /\ ReferrerSelect(p)
  \/ \E p \in Procs : ~Responding /\ ~Away /\ ReferrerUpdate(p)
  \/ \E p \in Procs : ~Responding /\ GenerateLink(p)
  \/ \E p \in Procs : ~Responding /\ SendConfirmationEmail(p)
  \/ \E p \in Procs : Respond(p)
  \/ ~Responding /\ ~Away /\ Tick
  \/ ~Responding /\ ~Away /\ Leaderboard
  \/ ~Responding /\ ~Away /\ DashboardRequest
  \/ ~Responding /\ ~Away /\ DashGetUser
  \/ ~Responding /\ ~Away /\ DashProfile
  \/ ~Responding /\ ~Away /\ DashReferrals
  \/ ReaderRespond

Spec == Init /\ [][Next]_vars

\* What the handler of request p does once the request has arrived.
Step(p) ==
  \/ /\ ~Responding /\ ~Away
     /\ \/ RateLimitInsert(p) \/ SelectExisting(p) \/ InsertSignup(p)
        \/ ReferrerSelect(p) \/ ReferrerUpdate(p)
  \/ /\ ~Responding
     /\ \/ ReturningLink(p) \/ ReturningMail(p)
        \/ GenerateLink(p) \/ SendConfirmationEmail(p)
  \/ Respond(p)

\* The runs of the signup handler alone, the clock standing still.
LiveEnvironments == {GatewayRun, BurstRun, SignupRun, ReferralPairRun}

LiveInit == Init /\ env \in LiveEnvironments

LiveNext ==
  \/ \E p \in Procs : ~Responding /\ ~Away /\ Request(p)
  \/ \E p \in Procs : ~Responding /\ ~Away /\ RateLimitInsert(p)
  \/ \E p \in Procs : ~Responding /\ ~Away /\ SelectExisting(p)
  \/ \E p \in Procs : ~Responding /\ ReturningLink(p)
  \/ \E p \in Procs : ~Responding /\ ReturningMail(p)
  \/ \E p \in Procs : ~Responding /\ ~Away /\ InsertSignup(p)
  \/ \E p \in Procs : ~Responding /\ ~Away /\ ReferrerSelect(p)
  \/ \E p \in Procs : ~Responding /\ ~Away /\ ReferrerUpdate(p)
  \/ \E p \in Procs : ~Responding /\ GenerateLink(p)
  \/ \E p \in Procs : ~Responding /\ SendConfirmationEmail(p)
  \/ \E p \in Procs : Respond(p)

\* Every call a handler awaits returns and the runtime resumes the handler;
\* every Response returned is sent.
LiveSpec ==
  LiveInit /\ [][LiveNext]_vars /\ \A p \in Procs : WF_vars(Step(p))

(* ------------------------------- claims -------------------------------- *)
Has(s, tag) == \E k \in 1..Len(s.log) : s.log[k] = tag

\* The calls of a request that failed.
FaultTags ==
  {"rate_limit:select_error", "rate_limit:insert_error", "existing:error",
   "insert:error", "referrer:error", "referrer:update_error",
   "link:failed", "link:undefined", "mail:failed"}

NoFault(s) == \A k \in 1..Len(s.log) : s.log[k] \notin FaultTags

RowsOf(email) == { i \in 1..Len(signups) : signups[i].email = email }

\* C1 (as claimed): a valid, admitted signup for an email that already has a
\* record is answered 200 on the returning-user path.  Read in the claim's
\* favour: only requests none of whose outside calls failed are looked at.
C1_ReturningUserGets200 ==
  \A p \in Procs :
    (req[p].pc = "done" /\ req[p].known /\ NoFault(req[p])) => req[p].status = 200

\* C2: a request whose insert succeeded has exactly one record for its email,
\* and that record's referral code is non-empty and no other record's; and a
\* valid request for an email not seen before, with no call failing and no
\* other request signing the same email up meanwhile, does insert.
C2_OneRecordFreshCode ==
  \A p \in Procs :
    /\ Has(req[p], "insert:ok") =>
         /\ Cardinality(RowsOf(req[p].email)) = 1
         /\ \A i \in RowsOf(req[p].email) :
              /\ signups[i].referral_code # <<>>
              /\ \A j \in 1..Len(signups) :
                   j # i => signups[j].referral_code # signups[i].referral_code
    /\ ( /\ req[p].pc = "done"
         /\ Has(req[p], "validator") /\ req[p].email # <<>>
         /\ ~req[p].known /\ NoFault(req[p])
         /\ ~Has(req[p], "existing:found") /\ ~Has(req[p], "insert:duplicate") )
       => Has(req[p], "insert:ok")

\* C2's case: a new signup has completed beside an older record.
C2_Witness ==
  \E p \in Procs :
    /\ req[p].pc = "done" /\ req[p].status = 201 /\ ~req[p].known
    /\ Len(signups) >= 2
    /\ RowsOf(req[p].email) = {Len(signups)}

\* C3: there is never more than one record per email, and a request whose
\* insert ran into the unique constraint answers 409 duplicate_entry.
C3_LoserGets409 ==
  /\ \A e \in Emails : Cardinality(RowsOf(e)) <= 1
  /\ \A p \in Procs :
       Has(req[p], "insert:duplicate") =>
         /\ req[p].pc = "done"
         /\ req[p].status = 409
         /\ req[p].error = "duplicate_entry"

\* C3's case: two requests for the same unseen email have both passed the
\* existence check; one has inserted, the other has lost.
C3_Witness ==
  /\ impl = "ref-dashboard.ts"
  /\ \E p, q \in Procs :
       /\ p # q /\ req[p].email = req[q].email
       /\ ~req[p].known /\ ~req[q].known
       /\ Has(req[p], "existing:none") /\ Has(req[q], "existing:none")
       /\ Has(req[p], "insert:ok")
       /\ Has(req[q], "insert:duplicate") /\ req[q].status = 409
       /\ Cardinality(RowsOf(req[p].email)) = 1

\* C4: no two records share an email, no two share a referral code, and no
\* referral_count is negative.
C4_StoreInvariant ==
  \A i, j \in 1..Len(signups) :
    /\ i # j => signups[i].email # signups[j].email
    /\ i # j => signups[i].referral_code # signups[j].referral_code
    /\ signups[i].referral_count >= 0

\* C4's case: several records inserted by the run's requests, one of them
\* with referrals counted.
C4_Witness ==
  /\ env.seeds = 0
  /\ Len(signups) >= 3
  /\ \E i \in 1..Len(signups) : signups[i].referral_count >= 1

CountOf(rows, code) ==
  LET found == { i \in 1..Len(rows) : rows[i].referral_code = code }
  IN  IF found = {} THEN 0 ELSE rows[CHOOSE i \in found : TRUE].referral_count

\* C5 (as claimed): the referral increment of a signup whose ref is the code
\* of an existing record raises that record's referral_count by exactly 1 and
\* changes no other count.  Only increments whose read and write both
\* succeeded are looked at.
C5_IncrementsByOne ==
  [][\A p \in Procs :
       ( /\ req[p].pc = "ref_update"
         /\ req'[p].pc = "generate_link"
         /\ Has(req'[p], "referrer:updated") )
       => /\ CountOf(signups', req[p].ref) = CountOf(signups, req[p].ref) + 1
          /\ \A i \in 1..Len(signups) :
               signups[i].referral_code # req[p].ref
                 => signups'[i].referral_count = signups[i].referral_count]_vars

\* The rows of one address within the trailing window that ends now.
InWindow(ip) == CountSince(rateLimits, ip, ENDPOINT, now - WINDOW_MS)

\* The step in which request p arrives and checkRateLimit's count succeeds.
Counted(p) ==
  /\ req[p].pc = "idle"
  /\ ~Has(req'[p], "rate_limit:select_error")
  /\ Has(req'[p], "rate_limit:denied") \/ Has(req'[p], "rate_limit:counted")

\* C6: when its count succeeds, checkRateLimit denies exactly when the address
\* has 5 or more rows in the trailing 120 s window; counting and denying write
\* nothing; an allowed call's insert adds one row for the address at the
\* current time and the request goes on; rows are never changed or removed.
C6_RateLimiter ==
  [][/\ \A p \in Procs :
          /\ Counted(p) =>
               /\ Has(req'[p], "rate_limit:denied") <=> InWindow(req'[p].ip) >= MAX_REQUESTS
               /\ rateLimits' = rateLimits
          /\ (req[p].pc = "rl_insert" /\ Has(req'[p], "rate_limit:inserted")) =>
               /\ rateLimits' =
                    rateLimits (+) SetToBag({RateRow(req[p].ip, ENDPOINT, now)})
               /\ Has(req'[p], "validator")
     /\ \A r \in DOMAIN rateLimits :
          r \in DOMAIN rateLimits' /\ rateLimits'[r] >= rateLimits[r]]_vars

\* C6's case: a request has been denied with exactly 5 rows in the window.
C6_Witness ==
  \E p \in Procs :
    /\ Has(req[p], "rate_limit:denied")
    /\ InWindow(req[p].ip) = MAX_REQUESTS
    /\ BagCardinality(rateLimits) > MAX_REQUESTS

\* C7: a POST that arrives when 5 earlier ones of its address are recorded in
\* the window is answered 429 rate_limit_exceeded at once: it reaches neither
\* the validator nor a table.
C7_SixthDenied ==
  [][\A p \in Procs :
       /\ (Counted(p) /\ InWindow(req'[p].ip) >= MAX_REQUESTS) =>
            /\ req'[p].pc = "done"
            /\ req'[p].status = 429
            /\ req'[p].error = "rate_limit_exceeded"
            /\ signups' = signups
            /\ rateLimits' = rateLimits
       /\ req'[p].status = 429 => req'[p].log = <<"gateway", "rate_limit:denied">>]_vars

\* C7's case: the sixth request of a run is denied, the five before it being
\* the rows of its address, all in the window.
C7_Witness ==
  /\ nreq = MAX_REQUESTS + 1
  /\ \E p \in Procs :
       /\ req[p].status = 429
       /\ InWindow(req[p].ip) = MAX_REQUESTS
       /\ BagCardinality(rateLimits) = MAX_REQUESTS

\* C8: a request that arrives when fewer than 5 rows of its address are in the
\* trailing window is not denied, whatever happened before; and a denied
\* request writes no row.
C8_AllowedAgain ==
  [][\A p \in Procs :
       /\ (Counted(p) /\ InWindow(req'[p].ip) < MAX_REQUESTS) =>
            /\ Has(req'[p], "rate_limit:counted")
            /\ req'[p].status # 429
       /\ (req[p].pc = "idle" /\ Has(req'[p], "rate_limit:denied")) =>
            rateLimits' = rateLimits]_vars

\* C8's case: an address that was denied is let through again, its 5 rows
\* having left the window.
C8_Witness ==
  \E p \in Procs :
    /\ req[p].ip \in denied
    /\ Has(req[p], "rate_limit:counted")
    /\ CountSince(rateLimits, req[p].ip, ENDPOINT, 0) >= MAX_REQUESTS
    /\ InWindow(req[p].ip) = 0

\* C9: a request whose count query or whose row insert failed is never
\* answered 429: it goes on to the validator.
C9_FailOpen ==
  \A p \in Procs :
    (Has(req[p], "rate_limit:select_error") \/ Has(req[p], "rate_limit:insert_error"))
      => /\ req[p].status # 429
         /\ ~Has(req[p], "rate_limit:denied")
         /\ Has(req[p], "validator")

\* C9's case: the count failed with the address at its limit.
C9_Witness ==
  \E p \in Procs :
    /\ Has(req[p], "rate_limit:select_error")
    /\ Has(req[p], "validator")
    /\ InWindow(req[p].ip) >= MAX_REQUESTS

\* C10: no step removes a signup record or changes its email or code, and a
\* request answered 503, 501 or 502 has inserted: a record for its email
\* exists.
C10_NoRollback ==
  [][/\ Len(signups') >= Len(signups)
     /\ \A i \in 1..Len(signups) :
          /\ signups'[i].email = signups[i].email
          /\ signups'[i].referral_code = signups[i].referral_code
     /\ \A p \in Procs :
          req'[p].status \in {503, 501, 502} =>
            /\ Has(req'[p], "insert:ok")
            /\ EmailTaken(signups', req'[p].email)]_vars

\* C10's case: a request answered 503 whose record is in the table.
C10_Witness ==
  \E p \in Procs :
    /\ req[p].pc = "done" /\ req[p].status = 503
    /\ RowsOf(req[p].email) # {}

\* C11 (as claimed): when generateLink for a newly inserted signup hands back
\* an error or no action link, the request ends at once with 503
\* magic_link_error, no confirmation email is sent, and the record stays.
C11_LinkFailure503 ==
  [][\A p \in Procs :
       ( /\ req[p].pc = "generate_link"
         /\ req'[p].pc # "generate_link"
         /\ ~Has(req'[p], "link:ok") )
       => /\ req'[p].pc = "done"
          /\ req'[p].status = 503
          /\ req'[p].error = "magic_link_error"
          /\ EmailTaken(signups', req[p].email)]_vars

\* A provider error that says the quota is used up: status 429, or the code
\* or the message speaking of the quota (the signals both versions read).
QuotaSignalled(mail) ==
  mail.status429 \/ mail.code \/ mail.message # "other"

\* C12 (as claimed): the confirmation email of a new signup ends in exactly
\* one of three ways: sent (201); a provider error with status 429 or a quota
\* signal, answered 501 email_quota_exceeded; any other provider error,
\* answered 502 email_send_failed.
C12_ThreeDispatchOutcomes ==
  \A p \in Procs :
    (req[p].pc = "done" /\ Has(req[p], "insert:ok")) =>
      /\ Has(req[p], "mail:sent") =>
           req[p].status = 201
      /\ (Has(req[p], "mail:failed") /\ QuotaSignalled(req[p].mail)) =>
           req[p].status = 501 /\ req[p].error = "email_quota_exceeded"
      /\ (Has(req[p], "mail:failed") /\ ~QuotaSignalled(req[p].mail)) =>
           req[p].status = 502 /\ req[p].error = "email_send_failed"

\* checkRateLimit returned true for the request: a row counted in, or a
\* failure of the counting store let through.
Allowed(s) ==
  /\ ~Has(s, "rate_limit:denied")
  /\ \/ Has(s, "rate_limit:inserted")
     \/ Has(s, "rate_limit:insert_error")
     \/ Has(s, "rate_limit:select_error")

\* C13 (as claimed): a request answered 201 was let through by the rate
\* limiter, passed validation, inserted its record, got its link and had its
\* confirmation email sent; and a request in which all of that happened is
\* answered 201.
C13_CreatedOnlyWhenComplete ==
  \A p \in Procs :
    /\ req[p].status = 201 =>
         /\ Allowed(req[p])
         /\ Has(req[p], "validator")
         /\ Has(req[p], "insert:ok")
         /\ Has(req[p], "link:ok")
         /\ Has(req[p], "mail:sent")
    /\ ( /\ req[p].pc = "done"
         /\ Has(req[p], "insert:ok") /\ Has(req[p], "link:ok")
         /\ Has(req[p], "mail:sent") )
       => req[p].status = 201

ReferralFaults == {"referrer:error", "referrer:update_error"}

\* C14: the referral steps never answer the request: whether the lookup or
\* the update fails or not, the request goes on to generateLink with nothing
\* but its log changed; and a request whose only failed calls were referral
\* calls is answered 201.
C14_ReferralFailureSwallowed ==
  [][\A p \in Procs :
       /\ (req[p].pc \in {"ref_select", "ref_update"} /\ req'[p] # req[p]) =>
            /\ req'[p].pc \in {"ref_update", "generate_link"}
            /\ req'[p].status = 0
            /\ req'[p].email = req[p].email
            /\ (\E t \in ReferralFaults : Has(req'[p], t)) =>
                 req'[p].pc = "generate_link"
       /\ ( /\ req'[p].pc = "done"
            /\ Has(req'[p], "insert:ok")
            /\ \A k \in 1..Len(req'[p].log) :
                 req'[p].log[k] \in FaultTags => req'[p].log[k] \in ReferralFaults )
          => req'[p].status = 201]_vars

\* C14's case: a signup whose referral update failed is answered 201 and the
\* referrer's count is as it was.
C14_Witness ==
  \E p \in Procs :
    /\ req[p].pc = "done" /\ req[p].status = 201
    /\ Has(req[p], "referrer:update_error")
    /\ RowsByCode(signups, req[p].ref) # {}
    /\ CountOf(signups, req[p].ref) = 0

\* C15 (as claimed): no step lowers a record's referral_count, and the only
\* step that changes it is the referral write of a signup whose ref is that
\* record's referral_code.
C15_CountNeverDecreases ==
  [][\A i \in 1..Len(signups) :
       /\ signups'[i].referral_count >= signups[i].referral_count
       /\ signups'[i].referral_count # signups[i].referral_count =>
            \E p \in Procs :
              /\ req[p].pc = "ref_update"
              /\ req[p].ref = signups[i].referral_code
              /\ Has(req'[p], "referrer:updated")]_vars

\* The records that were referred by a code.
ReferredWith(code) == { i \in 1..Len(signups) : signups[i].referred_by = code }

\* C16: the referral write stores the count its request read earlier plus
\* one, whatever the record holds by then: nothing re-reads or compares.
C16_WriteOfStaleRead ==
  [][\A p \in Procs :
       (req[p].pc = "ref_update" /\ Has(req'[p], "referrer:updated")) =>
         CountOf(signups', req[p].ref) = req[p].refRead + 1]_vars

\* C16's case: in a run where no call fails, two signups with the same valid
\* ref overlapped; both their records exist, the second has written its
\* increment after the first, no request is still under way, and the
\* referrer's count, 0 before, is 1.
C16_Witness ==
  \E q \in Procs :
    /\ env.faults = {}
    /\ Has(req[q], "referrer:updated")
    /\ \A p \in Procs : p # q => req[p].pc = "idle"
    /\ RowsOf(req[q].email) # {}
    /\ Cardinality(ReferredWith(req[q].ref)) = 2
    /\ CountOf(signups, req[q].ref) = 1

\* The check a validator's message stands for, in either version.
CheckOf(msg) ==
  CASE msg \in {"invalid_body", "Invalid_body"} -> "not_an_object"
    [] msg \in {"full_name_required", "Full_name field is required."} -> "full_name_required"
    [] msg \in {"email_required", "Email field is required."} -> "email_required"
    [] msg \in {"full_name_too_long", "Full_name exceeds 35 chars."} -> "full_name_too_long"
    [] msg \in {"email_too_long", "Email exceeds 50 chars."} -> "email_too_long"
    [] msg \in {"brand_name_too_long", "Brand_name exceeds 50 chars."} -> "brand_name_too_long"
    [] msg \in {"invalid_email_format", "Invalid_email_format"} -> "invalid_email_format"
    [] OTHER -> "other"

\* A field as the claims speak of it: trimmed, empty when it is missing.
Trimmed(field) == IF field = Undefined THEN <<>> ELSE Trim(field)

\* The first check of the claimed order that a body fails, "none" if none.
FirstFailing(i, raw) ==
  IF ~raw.isObject THEN "not_an_object"
  ELSE IF Trimmed(raw.full_name) = <<>> THEN "full_name_required"
  ELSE IF Trimmed(raw.email) = <<>> THEN "email_required"
  ELSE IF Len(Trimmed(raw.full_name)) > MAX_FULL_NAME_LENGTH(i) THEN "full_name_too_long"
  ELSE IF Len(Trimmed(raw.email)) > MAX_EMAIL_LENGTH(i) THEN "email_too_long"
  ELSE IF Len(Trimmed(raw.brand_name)) > MAX_BRAND_NAME_LENGTH(i) THEN "brand_name_too_long"
  ELSE IF ~EMAIL_REGEX(Trimmed(raw.email)) THEN "invalid_email_format"
  ELSE "none"

\* The frame's body reached the validator, all its fields strings or missing.
BodyValidated(s) ==
  /\ Has(s, "validator")
  /\ validateHeaders(s.sent.ctype)
  /\ NotString \notin {s.sent.raw.full_name, s.sent.raw.email, s.sent.raw.brand_name}

\* Validation was the frame's last step.
JustValidated(s) == s.log[Len(s.log)] = "validator"

\* The validator threw: the request ended in the validation stage.
BodyRejected(s) == s.pc = "done" /\ s.log[Len(s.log)] = "validator"

\* C17: the validator reports the first check that fails, in the order
\* not-an-object, full_name empty, email empty, full_name / email / brand_name
\* too long, email format; when none fails the handler goes on with the
\* trimmed email and ref.
C17_ValidatorOrder ==
  \A p \in Procs :
    BodyValidated(req[p]) =>
      /\ JustValidated(req[p]) =>
           /\ BodyRejected(req[p]) <=>
                FirstFailing(impl, req[p].sent.raw) # "none"
           /\ BodyRejected(req[p]) =>
                CheckOf(req[p].thrown) = FirstFailing(impl, req[p].sent.raw)
      /\ ~BodyRejected(req[p]) =>
           /\ req[p].email = Trim(req[p].sent.raw.email)
           /\ req[p].ref = OptTrim(req[p].sent.ref)

\* C17's case: a body whose email is both too long and malformed, and whose
\* brand_name is too long as well, was rejected for the email's length.
C17_Witness ==
  \E p \in Procs :
    /\ BodyValidated(req[p]) /\ BodyRejected(req[p])
    /\ CheckOf(req[p].thrown) = "email_too_long"
    /\ ~EMAIL_REGEX(Trimmed(req[p].sent.raw.email))
    /\ Len(Trimmed(req[p].sent.raw.brand_name)) > MAX_BRAND_NAME_LENGTH(impl)

FieldChecks ==
  {"full_name_required", "email_required", "full_name_too_long",
   "email_too_long", "brand_name_too_long"}

\* C18: a request stopped for its method is answered 405, for its content
\* type 415, for a missing or too long field 400, for a malformed email 422
\* invalid_email; and a request answered 500 is none of these.
C18_RejectionStatuses ==
  \A p \in Procs :
    req[p].pc = "done" =>
      LET s == req[p]
          failing == FirstFailing(impl, s.sent.raw)
      IN  /\ s.method \notin {"POST", "OPTIONS"} =>
               s.status = 405 /\ s.error = "method_not_allowed"
          /\ (Has(s, "validator") /\ ~validateHeaders(s.sent.ctype)) =>
               s.status = 415 /\ s.error = "invalid_content_type"
          /\ (BodyValidated(s) /\ failing \in FieldChecks) => s.status = 400
          /\ (BodyValidated(s) /\ failing = "invalid_email_format") =>
               s.status = 422 /\ s.error = "invalid_email"
          /\ s.status = 500 =>
               /\ s.method = "POST"
               /\ Has(s, "validator") /\ validateHeaders(s.sent.ctype)
               /\ BodyValidated(s) => failing \in {"none", "not_an_object"}

\* C18's case: a body with email "not-an-email" has been answered 422
\* invalid_email.
C18_Witness ==
  \E p \in Procs :
    /\ req[p].pc = "done" /\ req[p].status = 422 /\ req[p].error = "invalid_email"
    /\ req[p].sent.raw.email = <<"n", "o", "t", "-", "a", "n", "-", "e", "m", "a", "i", "l">>

\* The leaderboard's handler has answered a GET with the list.
BoardAnswered ==
  /\ reader.pc = "done" /\ reader.endpoint = "leaderboard"
  /\ reader.method = "GET" /\ reader.status = 200

\* C19: a leaderboard response holds at most 10 entries, referral_count never
\* increases from one entry to the next, and the k-th entry's rank is k.
C19_TopTenRanked ==
  BoardAnswered =>
    LET board == reader.leaderboard
    IN  /\ Len(board) <= 10
        /\ \A k \in 1..Len(board) : board[k].rank = k
        /\ \A k \in 1..(Len(board) - 1) :
             board[k].referral_count >= board[k + 1].referral_count

\* C19's case: more than ten signups with different counts, ten of them
\* listed.
C19_Witness ==
  /\ BoardAnswered
  /\ Len(signups) > 10
  /\ Len(reader.leaderboard) = 10
  /\ reader.leaderboard[1].referral_count > reader.leaderboard[10].referral_count
  /\ \E i \in 1..Len(signups) :
       /\ signups[i].referral_count > signups[1].referral_count
       /\ reader.leaderboard[1].referral_code = signups[i].referral_code

\* The dashboard's handler has answered a GET.
DashAnswered ==
  /\ reader.pc = "done" /\ reader.endpoint = "dashboard"
  /\ reader.method = "GET"

HasBearer(r) == r.auth # <<>> /\ r.auth[1] = "Bearer "

HasRecord(email) == \E i \in 1..Len(signups) : signups[i].email = email

\* C20: the dashboard answers 401 unauthorized to a missing or non-Bearer
\* header without any call, 401 invalid_token to a token the auth service did
\* not verify without reading the store, 404 profile_not_found when no signup
\* has the verified identity's email; a 200 comes only after all three
\* passed and carries that signup's profile, and no profile goes to a caller
\* whose token was not verified.
C20_DashboardCheckOrder ==
  DashAnswered =>
    /\ ~HasBearer(reader) =>
         /\ reader.status = 401 /\ reader.error = "unauthorized"
         /\ reader.log = <<>>
    /\ HasBearer(reader) /\ reader.verdict = "rejected" =>
         /\ reader.status = 401 /\ reader.error = "invalid_token"
         /\ reader.log = <<"getUser">>
    /\ reader.verdict = "verified" /\ ~HasRecord(reader.user[1].email) =>
         /\ reader.status = 404 /\ reader.error = "profile_not_found"
         /\ reader.log = <<"getUser", "profile">>
    /\ reader.status = 200 =>
         /\ HasBearer(reader) /\ reader.verdict = "verified"
         /\ reader.log = <<"getUser", "profile", "referrals">>
         /\ \E i \in 1..Len(signups) :
              /\ signups[i].email = reader.user[1].email
              /\ reader.profile[1].code = signups[i].referral_code
    /\ reader.verdict # "verified" =>
         reader.profile = <<>> /\ reader.recentReferrals = <<>>
    /\ reader.status # 200 =>
         reader.profile = <<>> /\ reader.recentReferrals = <<>>

\* C20's case: a store with records, a verified caller whose email has none,
\* answered 404 after the header and the token passed.
C20_Witness ==
  /\ DashAnswered
  /\ Len(signups) >= 2
  /\ HasBearer(reader) /\ reader.verdict = "verified"
  /\ ~HasRecord(reader.user[1].email)
  /\ reader.status = 404

\* C21: a dashboard answered 200 for a profile whose referral_code is the
\* referred_by of no signup record carries an empty recentReferrals and
\* profile.referrals 0.
C21_NoReferrersEmptyDashboard ==
  (DashAnswered /\ reader.status = 200
     /\ ReferredWith(reader.profile[1].code) = {}) =>
    /\ reader.recentReferrals = <<>>
    /\ reader.profile[1].referrals = 0

\* C21's case: while signups come in, the user who signed up with another's
\* code and referred nobody reads the dashboard.
C21_Witness ==
  /\ DashAnswered /\ reader.status = 200
  /\ env.clients > 0 /\ Len(signups) = 2
  /\ reader.user[1].email = Email2
  /\ signups[2].email = Email2 /\ signups[2].referred_by = signups[1].referral_code
  /\ ReferredWith(reader.profile[1].code) = {}
  /\ reader.recentReferrals = <<>> /\ reader.profile[1].referrals = 0

\* The error kinds the three handlers write into a body as literals.
ErrorKinds ==
  {"", "method_not_allowed", "rate_limit_exceeded", "invalid_content_type",
   "missing_field", "field_too_long", "invalid_request_body", "invalid_email",
   "duplicate_entry", "db_error", "magic_link_error", "email_quota_exceeded",
   "email_send_failed", "internal_server_error", "unauthorized",
   "invalid_token", "profile_not_found"}

\* C22: the error of every Response of the signup, dashboard and leaderboard
\* handlers is one of the fixed kinds, never text of the datastore, the auth
\* service or the email provider.
C22_NoInternalDetail ==
  /\ \A p \in Procs : req[p].pc = "done" => req[p].error \in ErrorKinds
  /\ reader.pc = "done" => reader.error \in ErrorKinds

\* The stage a step of a signup request belongs to: 1 gateway, 2 rate
\* limiter, 3 validator, 4 orchestrator.
StageOf(tag) ==
  IF tag = "gateway" THEN 1
  ELSE IF tag \in {"rate_limit:select_error", "rate_limit:counted",
                   "rate_limit:denied", "rate_limit:inserted",
                   "rate_limit:insert_error"} THEN 2
  ELSE IF tag = "validator" THEN 3
  ELSE 4

Stages(s) == { StageOf(s.log[k]) : k \in 1..Len(s.log) }

\* The steps of a request come in the order of the stages, and a request
\* denied by the rate limiter or rejected by the validator goes no further.
StagesInOrder(s) ==
  /\ \A j, k \in 1..Len(s.log) : j < k => StageOf(s.log[j]) <= StageOf(s.log[k])
  /\ (s.pc = "done" /\ s.status = 429) => Stages(s) \subseteq {1, 2}
  /\ (s.pc = "done" /\ s.log[Len(s.log)] = "validator") => 4 \notin Stages(s)

\* The gateway's three rejections: preflight, method, content type.
GatewayRejected(s) ==
  s.pc = "done" /\ (s.method # "POST" \/ s.status = 415)

\* C23: a signup request passes gateway, rate limiter, validator and
\* orchestrator in this order, stops at the stage that rejects it, and one
\* rejected for its method or its content type (or answered as a preflight)
\* has not reached the rate limiter: it recorded no rate-limit entry.
C23_StageOrder ==
  \A p \in Procs :
    /\ StagesInOrder(req[p])
    /\ GatewayRejected(req[p]) => 2 \notin Stages(req[p])

\* How many of a request's steps carry one of the tags.
Attempts(s, tags) == Cardinality({ k \in 1..Len(s.log) : s.log[k] \in tags })

\* The insert, the referrer's update, the link and the email of one request
\* were each attempted at most once.
AtMostOnce(s) ==
  /\ Attempts(s, {"insert:ok", "insert:duplicate", "insert:error"}) <= 1
  /\ Attempts(s, {"referrer:updated", "referrer:update_error"}) <= 1
  /\ Attempts(s, {"link:ok", "link:undefined", "link:failed"}) <= 1
  /\ Attempts(s, {"mail:sent", "mail:failed"}) <= 1

\* C24: a signup request that has started ends with a Response, the Response
\* is sent once and leaves the frame free, and within the request the insert,
\* the referrer's update, the link generation and the email dispatch are each
\* attempted at most once.
C24_RunsToCompletionOnce ==
  /\ [](\A p \in Procs : AtMostOnce(req[p]))
  /\ [][\A p \in Procs :
          req[p].pc = "done" => (req'[p] = req[p] \/ req'[p] = Idle)]_vars
  /\ \A p \in Procs : (req[p].pc # "idle") ~> (req[p].pc = "done")

\* C24's case: a signup with a referral went through every call, each once,
\* and is answered 201.
C24_Witness ==
  \E p \in Procs :
    /\ req[p].pc = "done" /\ req[p].status = 201
    /\ Attempts(req[p], {"insert:ok"}) = 1
    /\ Attempts(req[p], {"referrer:updated"}) = 1
    /\ Attempts(req[p], {"link:ok"}) = 1
    /\ Attempts(req[p], {"mail:sent"}) = 1

\* C25: a step of a dashboard or leaderboard request, whatever its outcome,
\* leaves every signup record, every referral_count and every rate-limit
\* record as it was.
C25_ReadsOnly ==
  [][reader' # reader => (signups' = signups /\ rateLimits' = rateLimits)]_vars

\* C25's case: the dashboard has answered while the store holds signups and
\* rate-limit rows.
C25_Witness ==
  /\ reader.pc = "done" /\ reader.endpoint = "dashboard"
  /\ reader.status \in {200, 404}
  /\ signups # <<>>
  /\ rateLimits # EmptyBag

\* The rate-limit rows of an address created in the window that ends at a
\* time.
RowsInWindow(ip, end) ==
  LET hit == { r \in DOMAIN rateLimits :
                 /\ r.ip = ip /\ r.endpoint = ENDPOINT
                 /\ r.created_at >= WindowStart(end) /\ r.created_at <= end }
  IN  BagCardinality([r \in hit |-> rateLimits[r]])

\* C26: while the counting query never fails, no address has more than 5
\* rate-limit rows created within one window, however the requests
\* interleave.
C26_AtMostFivePerWindow ==
  "rate_select" \notin env.faults =>
    \A ip \in IPs : \A r \in DOMAIN rateLimits :
      RowsInWindow(ip, r.created_at) <= MAX_REQUESTS

\* No signup request is under way.
Quiescent == \A p \in Procs : req[p].pc = "idle"

\* C27: in a run that started with an empty table, whenever no signup request
\* is in flight every record's referral_count is the number of records whose
\* referred_by is its referral_code.
C27_CountMatchesReferred ==
  (env.seeds = 0 /\ Quiescent) =>
    \A i \in 1..Len(signups) :
      signups[i].referral_count
        = Cardinality(ReferredWith(signups[i].referral_code))

\* C28: a record's referral_count is never above the number of records whose
\* referred_by is its referral_code, and a count is only written by a request
\* that has inserted its record, once.
C28_CountAtMostReferred ==
  /\ \A i \in 1..Len(signups) :
       signups[i].referral_count
         <= Cardinality(ReferredWith(signups[i].referral_code))
  /\ \A p \in Procs :
       /\ Attempts(req[p], {"referrer:updated", "referrer:update_error"}) <= 1
       /\ (Has(req[p], "referrer:read") \/ Has(req[p], "referrer:updated")) =>
            Has(req[p], "insert:ok")

\* C28's case: two records were referred with one code and one of the two
\* increments was lost, while a request that carried the code but inserted
\* nothing (a returning user or the loser of a duplicate) is answered.
C28_Witness ==
  /\ env.seeds = 0
  /\ \E q \in Procs :
       /\ req[q].pc = "done" /\ req[q].status \in {200, 409}
       /\ req[q].ref \in Codes(signups)
  /\ \E i \in 1..Len(signups) :
       /\ Cardinality(ReferredWith(signups[i].referral_code)) = 2
       /\ signups[i].referral_count = 1

\* C29: the referred_by of every signup record is null or the referral_code
\* of another record.
C29_ReferredByValid ==
  \A i \in 1..Len(signups) :
    \/ signups[i].referred_by = Null
    \/ \E j \in 1..Len(signups) :
         j # i /\ signups[j].referral_code = signups[i].referred_by

\* The request is answered 429, 415, 400, 422, 409, or 500 after its insert
\* failed.
Turned(s) ==
  /\ s.pc = "done"
  /\ \/ s.status \in {429, 415, 400, 422, 409}
     \/ s.status = 500 /\ Has(s, "insert:error")

\* The request wrote nothing to the signup table, generated no link and sent
\* no email, and added at most one rate-limit row.
NoEffects(s) ==
  /\ Attempts(s, {"insert:ok", "referrer:updated"}) = 0
  /\ Attempts(s, {"link:ok", "link:undefined", "link:failed"}) = 0
  /\ Attempts(s, {"mail:sent", "mail:failed"}) = 0
  /\ Attempts(s, {"rate_limit:inserted"}) <= 1

\* The step just taken by request p, by the last entry of its log.
Stepped(p, tags) ==
  /\ req'[p] # req[p] /\ req'[p].log # <<>>
  /\ req'[p].log[Len(req'[p].log)] \in tags

\* C30: a signup request answered 429, 415, 400, 422, 409, or 500 after a
\* failed insert has created no record, changed no referral_count, generated
\* no link and sent no email, and added at most one rate-limit row; the
\* signup table changes only in the step of a successful insert or referrer
\* update, the rate-limit table only in the step of a rate-limit insert.
C30_TurnedLeavesStore ==
  /\ [](\A p \in Procs : Turned(req[p]) => NoEffects(req[p]))
  /\ [][/\ signups' # signups =>
            \E p \in Procs : Stepped(p, {"insert:ok", "referrer:updated"})
        /\ rateLimits' # rateLimits =>
            \E p \in Procs :
              /\ req[p].pc = "rl_insert"
              /\ Has(req'[p], "rate_limit:inserted")
              /\ BagCardinality(rateLimits') = BagCardinality(rateLimits) + 1
        /\ \A p \in Procs :
             (Turned(req'[p]) /\ ~Turned(req[p])) => signups' = signups]_vars

\* C30's case: with records in the table, a request that was counted by the
\* rate limiter is answered 500 after its insert failed.
C30_Witness ==
  \E p \in Procs :
    /\ Turned(req[p]) /\ req[p].status = 500
    /\ Has(req[p], "rate_limit:inserted")
    /\ signups # <<>>

====
